---- MODULE Spec2Model ----
(***************************************************************************)
(* Model of astrbot_plugin_nyscheduler (src/main.py): the Daily60sNewsPlugin *)
(* scheduler loop, its fetchers, the fan-out to groups and the on-demand   *)
(* command handlers.                                                       *)
(*                                                                         *)
(* Time is an integer number of clock ticks since Monday 00:00 of week 0.  *)
(* A coroutine is a task with a program counter that names the await it is *)
(* suspended on; one action resumes the task from that await and runs the  *)
(* code up to the next await.                                              *)
(***************************************************************************)
EXTENDS Integers, Sequences, FiniteSets, TLC

\* ------------------------------------------------------------ bounds
\* Resolution of the clock: ticks per second (datetime has 10^6).
TicksPerSecond == 2
\* Longest configured list of trigger strings drawn for the clock checks.
MaxTriggers == 2
\* Number of configured destinations (self.groups).
NumGroups == 2
\* Days of wall-clock time the scheduler loop is followed for.
MaxDays == 2
\* Orphaned temporary files are counted up to this number.
MaxLeaked == 1
\* Largest number of nodes of a JSON value handed to an extractor.
MaxNodes == 4

\* ------------------------------------------------- program constants
Retries == 3
BackoffSeconds == 1
PaceSeconds == 2
GuardSeconds == 60
CooldownSeconds == 300
TimeoutSeconds == 30

\* ------------------------------------------------------------- time
TicksPerMinute == 60 * TicksPerSecond
TicksPerDay == 24 * 60 * TicksPerMinute

Seconds(n) == n * TicksPerSecond

\* An instant from its calendar fields.
At(day, hour, minute, second, sub) ==
    day * TicksPerDay + (hour * 60 + minute) * TicksPerMinute
        + second * TicksPerSecond + sub

DayOf(t) == t \div TicksPerDay
\* datetime.weekday(): Monday is 0.
Weekday(t) == DayOf(t) % 7
\* Ticks since the last full minute (the second and microsecond fields).
SecondPart(t) == t % TicksPerMinute

SetMin(S) == CHOOSE x \in S : \A y \in S : x <= y
Max(a, b) == IF a >= b THEN a ELSE b

\* ---------------------------------------------------- trigger strings
\* A configured trigger string is the sequence of its ':'-separated fields;
\* a field is either text that int() accepts, with its value, or text that
\* int() rejects.
IntField(n) == [num |-> TRUE, val |-> n]
JunkField == [num |-> FALSE, val |-> 0]
HHMM(h, m) == <<IntField(h), IntField(m)>>

\* _parse_time: h, m = map(int, time_str.split(":")); datetime.time(hour=h, minute=m).
\* The unpacking needs exactly two fields, int() needs each numeric, and
\* datetime.time needs 0 <= hour <= 23 and 0 <= minute <= 59.
parse_time_ok(time_str) ==
    /\ Len(time_str) = 2
    /\ time_str[1].num
    /\ time_str[2].num
    /\ time_str[1].val \in 0..23
    /\ time_str[2].val \in 0..59

parse_time(time_str) == [hour |-> time_str[1].val, minute |-> time_str[2].val]

\* now.replace(hour=t.hour, minute=t.minute, second=0, microsecond=0)
Replace(t, hour, minute) ==
    DayOf(t) * TicksPerDay + (hour * 60 + minute) * TicksPerMinute

\* Candidate with "candidate < now" for "candidate <= now".
CandidateNotBefore(t, time_str) ==
    LET tm == parse_time(time_str)
        candidate == Replace(t, tm.hour, tm.minute)
    IN  IF candidate < t THEN candidate + TicksPerDay ELSE candidate

\* The candidate of one trigger: today's instant, or tomorrow's when today's
\* is not after now.
Candidate(t, time_str) ==
    LET tm == parse_time(time_str)
        candidate == Replace(t, tm.hour, tm.minute)
    IN  IF candidate <= t THEN candidate + TicksPerDay ELSE candidate

\* _get_next_push_time: the triggers that fail to parse are skipped; with no
\* candidate left it raises ValueError.
Candidates(t, times) ==
    { Candidate(t, times[i]) : i \in { j \in 1..Len(times) : parse_time_ok(times[j]) } }

\* _get_next_push_time with the try around the whole loop: one string that
\* fails to parse fails the call.
get_next_push_time_all_or_nothing(t, times) ==
    IF \E i \in 1..Len(times) : ~parse_time_ok(times[i])
    THEN [raised |-> TRUE, value |-> 0]
    ELSE [raised |-> FALSE, value |-> SetMin(Candidates(t, times))]

get_next_push_time(t, times) ==
    LET candidates == Candidates(t, times)
    IN  IF candidates = {}
        THEN [raised |-> TRUE, value |-> 0]
        ELSE [raised |-> FALSE, value |-> SetMin(candidates)]

\* ------------------------------------------------------------- state
Tasks == {"sched", "cmd"}

VARIABLES
    now,         \* datetime.datetime.now(), in ticks
    push_times,  \* self.push_times
    format,      \* self.format, self.moyu_format, self.gold_format, self.ai_format
    enable,      \* self.enable_news, self.enable_moyu, self.enable_gold, self.enable_ai
    pc,          \* per task: the await it is suspended on
    loc,         \* per task: the local variables of its frames
    status,      \* what the last check_status call produced
    cycles,      \* the firing instants push cycles were started for, in order
    flog,        \* per task: the attempts of its current or last fetch
    dlog,        \* per task: the sends of its current or last dispatch
    leaked,      \* temporary files left on disk by finished dispatches
    start,       \* the instant the plugin was constructed
    extract      \* the last call of a JSON extractor: its argument and result

vars == <<now, push_times, format, enable, pc, loc, status, cycles, flog, dlog,
          leaked, start, extract>>

\* The scheduler loop is followed until the end of the MaxDays-th day.
Horizon == (DayOf(start) + MaxDays) * TicksPerDay
\* How late a sleep until the firing instant may end, in ticks.
Oversleep == {0, 1}

\* The order of the four sources in _daily_task.
Sources == <<"news", "moyu", "gold", "ai">>
SourceSet == {"news", "moyu", "gold", "ai"}
\* A configured format: the two documented values and any other string.
Formats == {"image", "text", "json"}

\* self.groups
groups == [i \in 1..NumGroups |-> i]

NoStatus == [called |-> FALSE, raised |-> FALSE, next_push |-> 0, hours |-> 0, minutes |-> 0]

\* ------------------------------------------------------ JSON values
\* A parsed JSON value: a string (a sequence of text chunks), null, an array
\* or an object (its values in key order, each carrying its key in k).
JNull == [t |-> "null", k |-> "", s |-> <<>>, items |-> <<>>]
JStr(chunks) == [t |-> "str", k |-> "", s |-> chunks, items |-> <<>>]
JList(items) == [t |-> "list", k |-> "", s |-> <<>>, items |-> items]
JDict(items) == [t |-> "dict", k |-> "", s |-> <<>>, items |-> items]
Keyed(key, node) == [node EXCEPT !.k = key]
\* Python's None, as a function result.
None == [t |-> "none", k |-> "", s |-> <<>>, items |-> <<>>]

\* Python truthiness of a value: None, "", [] and {} are false.
Truthy(v) ==
    \/ v.t = "str" /\ v.s # <<>>
    \/ v.t \in {"list", "dict"} /\ v.items # <<>>

\* str.startswith and the substring test, on chunks.
StartsWith(str, chunk) == Len(str) > 0 /\ str[1] = chunk
Contains(str, chunk) == \E i \in 1..Len(str) : str[i] = chunk
ImageExts == {".jpg", ".jpeg", ".png"}

\* The loop "for v in ...: res = f(v); if res: return res", given the results.
FirstTruthy(results) ==
    LET hits == { i \in 1..Len(results) : Truthy(results[i]) }
    IN  IF hits = {} THEN None ELSE results[SetMin(hits)]

RECURSIVE extract_first_string(_)
extract_first_string(obj) ==
    IF obj.t = "str" THEN obj
    ELSE IF obj.t \in {"dict", "list"}
    THEN FirstTruthy([i \in 1..Len(obj.items) |-> extract_first_string(obj.items[i])])
    ELSE None

IsImageUrl(obj) ==
    /\ obj.t = "str"
    /\ StartsWith(obj.s, "http")
    /\ \E ext \in ImageExts : Contains(obj.s, ext)

RECURSIVE extract_first_image_url(_)
extract_first_image_url(obj) ==
    IF IsImageUrl(obj) THEN obj
    ELSE IF obj.t \in {"dict", "list"}
    THEN FirstTruthy([i \in 1..Len(obj.items) |-> extract_first_image_url(obj.items[i])])
    ELSE None

\* dict.get(key, default)
DictGet(d, key, default) ==
    LET at == { i \in 1..Len(d.items) : d.items[i].k = key }
    IN  IF at = {} THEN default ELSE d.items[SetMin(at)]

\* str(data): the text of a string itself, a non-empty rendering of anything else.
StrOf(data) == IF data.t = "str" THEN data.s ELSE <<"repr">>

\* No extractor has been called.
NoExtract == [func |-> "none", obj |-> JNull, res |-> None]

\* -------------------------------------------------------- responses
\* What one HTTP GET can end in: a 200 response with a body, another status,
\* a timeout, or any other exception (connection error, undecodable JSON).
UrlPng == <<"http", "s://", "host", ".png", "?q">>
UrlGif == <<"http", "s://", "host", ".gif">>
UrlJpg == <<"http", "://", "host", ".jpg">>
\* Strings with an image extension that are no http:// or https:// URL.
HttpNoScheme == <<"http", "x", ".png">>
FtpPng == <<"ftp", "://", "host", ".png">>

\* Bodies of a raw (format=text or format=image) response, as bytes.
RawBodies == { JStr(<<>>), JStr(<<"bytes">>) }
\* Bodies of a format=json response.
JsonBodies ==
    { JStr(<<>>),
      JStr(<<"txt">>),
      JNull,
      JList(<<JStr(UrlGif), JStr(UrlPng)>>),
      JDict(<<Keyed("data", JDict(<<Keyed("news", JList(<<JStr(<<"txt">>)>>)),
                                    Keyed("image", JStr(UrlPng))>>))>>),
      JDict(<<Keyed("data", JDict(<<>>))>>),
      JDict(<<Keyed("data", JNull)>>) }

FailKinds == {"status", "timeout", "error"}
Failure(kind) == [kind |-> kind, body |-> JNull]
Responses(use_json) ==
    { Failure(kind) : kind \in FailKinds }
        \cup { [kind |-> "ok", body |-> b] : b \in IF use_json THEN JsonBodies ELSE RawBodies }


\* The four fetchers and the format each is handed.
Fetchers == {"news_text", "news_image", "generic_text", "generic_image"}
IsImageFetcher(fetcher) == fetcher \in {"news_image", "generic_image"}

\* use_json = fmt == "json": JSON is asked for when the configured format
\* is "json".
UseJsonWhenJson(fetcher, fmt) == fmt = "json"

\* fmt = "json" if ... : the text fetchers ask for JSON when the configured
\* format is "image", the image fetchers when it is "text".
UseJson(fetcher, fmt) ==
    IF IsImageFetcher(fetcher) THEN fmt = "text" ELSE fmt = "image"

\* The outcome of one attempt: a payload, or the exception it raised.
\* A payload is text or the content written to a fresh temporary file.
Raised(kind) == [ok |-> FALSE, tag |-> "error", s |-> <<kind>>]
TextPayload(str) == [ok |-> TRUE, tag |-> "text", s |-> str]
FilePayload(bytes) == [ok |-> TRUE, tag |-> "path", s |-> bytes]

\* The second GET of an image fetcher in JSON mode: session.get(img_url).
DownloadImage(img_url, resp2) ==
    IF img_url.t # "str" THEN Raised("error")
    ELSE IF resp2.kind # "ok" THEN Raised(resp2.kind)
    ELSE FilePayload(resp2.body.s)

\* payload = data.get("data", {}): AttributeError unless data is an object.
NewsPayload(data) == DictGet(data, "data", JDict(<<>>))

AttemptOutcome(fetcher, use_json, resp, resp2) ==
    IF resp.kind # "ok" THEN Raised(resp.kind)
    ELSE IF ~use_json
    THEN IF IsImageFetcher(fetcher)
         THEN FilePayload(resp.body.s)
         ELSE TextPayload(resp.body.s)
    ELSE IF fetcher = "generic_text"
    THEN LET txt == extract_first_string(resp.body)
         IN  TextPayload(IF Truthy(txt) THEN txt.s ELSE StrOf(resp.body))
    ELSE IF fetcher = "generic_image"
    THEN LET img_url == extract_first_image_url(resp.body)
         IN  IF ~Truthy(img_url) THEN Raised("nomatch")
             ELSE DownloadImage(img_url, resp2)
    ELSE IF resp.body.t # "dict" \/ NewsPayload(resp.body).t # "dict"
    THEN Raised("error")
    ELSE IF fetcher = "news_text"
    THEN TextPayload(<<"header">>)
    ELSE LET payload == NewsPayload(resp.body)
             image == DictGet(payload, "image", None)
             img_url == IF Truthy(image) THEN image ELSE DictGet(payload, "cover", None)
         IN  IF ~Truthy(img_url) THEN Raised("nomatch")
             ELSE DownloadImage(img_url, resp2)

\* The test one off: "if attempt == retries".
IsLastAttemptOff(attempt) == attempt = Retries

\* An attempt that ends in a timeout took self.timeout; the others are not
\* timed.
AttemptTime(out) ==
    IF ~out.ok /\ out.s = <<"timeout">> THEN Seconds(TimeoutSeconds) ELSE 0

\* if attempt == retries - 1: return ..., False
IsLastAttempt(attempt) == attempt = Retries - 1

\* ------------------------------------------------------ task frames
NoRet == [ok |-> FALSE, tag |-> "none", s |-> <<>>]
NoResult == [ok |-> FALSE, tag |-> "none", s |-> <<>>, attempt |-> 0]
NoErr == [kind |-> "none", attempt |-> 0]

InitLoc ==
    [ next_push |-> 0,       \* _daily_task: next_push
      caller    |-> "none",  \* who awaits the fetch: daily, push, handle, direct
      src       |-> "none",  \* the source being fetched and dispatched
      is_image  |-> FALSE,   \* _send_to_groups: is_image; _handle_fetch: fmt == "image"
      fetcher   |-> "none",  \* fetch_func
      use_json  |-> FALSE,   \* the fetcher's use_json
      attempt   |-> 0,       \* the fetcher's loop variable
      ret       |-> NoRet,   \* the tuple the fetcher returned
      target    |-> 0,       \* index of the loop over self.groups
      path      |-> FALSE ]  \* the temporary file of this cycle is on disk

\* The attempts of a fetch: GETs started, backoff waits, the last exception,
\* and what it returned together with the attempt that produced it.
NewFlog == [tries |-> 0, waits |-> 0, last_err |-> NoErr, ret |-> NoResult, done |-> FALSE]
\* A dispatch: its source, how its fetch ended (ok, failed), its send attempts, whether a
\* temporary file was created, the os.remove calls, whether the file was left
\* on disk at the end, whether the dispatch ran to its end, and what
\* push_news replied after it.
NewDlog == [src |-> "none", fetched |-> "pending", sends |-> <<>>, removed |-> 0,
            created |-> FALSE, left |-> FALSE, done |-> FALSE, reply |-> "none"]

\* The part of the state one task's step reads and writes.
M(t) == [pc |-> pc[t], loc |-> loc[t], flog |-> flog[t], dlog |-> dlog[t],
         leaked |-> leaked, now |-> now]

Commit(t, m) ==
    /\ pc' = [pc EXCEPT ![t] = m.pc]
    /\ loc' = [loc EXCEPT ![t] = m.loc]
    /\ flog' = [flog EXCEPT ![t] = m.flog]
    /\ dlog' = [dlog EXCEPT ![t] = m.dlog]
    /\ leaked' = m.leaked
    /\ now' = m.now

\* Only the scheduler task's waits move the clock the scheduler reads.
Elapse(t, m, d) == IF t = "sched" THEN [m EXCEPT !.now = @ + d] ELSE m

SourceIndex(src) == CHOOSE i \in 1..Len(Sources) : Sources[i] = src

\* self._fetch_news_image_path if fmt == "image" else self._fetch_news_text, ...
FetchFunc(src, is_image) ==
    IF src = "news"
    THEN (IF is_image THEN "news_image" ELSE "news_text")
    ELSE (IF is_image THEN "generic_image" ELSE "generic_text")

\* A fetcher is entered: it runs to its first session.get.
BeginFetch(m, fetcher, fmt) ==
    [m EXCEPT !.pc = "fetch_get",
              !.loc.fetcher = fetcher,
              !.loc.use_json = UseJson(fetcher, fmt),
              !.loc.attempt = 0,
              !.loc.ret = NoRet,
              !.flog = NewFlog]

\* _send_to_groups(fetch_func, is_image) is entered: await fetch_func().
send_to_groups(m, caller, src) ==
    LET is_image == format[src] = "image"
        m1 == BeginFetch(m, FetchFunc(src, is_image), format[src])
    IN  [m1 EXCEPT !.loc.caller = caller,
                   !.loc.src = src,
                   !.loc.is_image = is_image,
                   !.loc.target = 0,
                   !.dlog = [NewDlog EXCEPT !.src = src]]

\* if weekday not in (5, 6)
AiAllowed(t) == Weekday(t) \notin {5, 6}

\* The "if self.enable_x: await self._send_to_groups(...)" chain of
\* _daily_task from the k-th source on, up to the next await.
RECURSIVE RunSources(_, _)
RunSources(m, k) ==
    IF k > Len(Sources) THEN [m EXCEPT !.pc = "guard"]
    ELSE IF enable[Sources[k]] /\ (Sources[k] # "ai" \/ AiAllowed(m.now))
    THEN send_to_groups(m, "daily", Sources[k])
    ELSE RunSources(m, k + 1)

\* A cycle is over: a temporary file it still owns stays on disk for good.
Release(m) ==
    [m EXCEPT !.dlog.left = m.loc.path,
              !.loc.path = FALSE,
              !.leaked = IF m.loc.path /\ @ < MaxLeaked THEN @ + 1 ELSE @]

\* The frames of the cycle are popped; what it sent stays on record.
Settle(m) ==
    [Release(m) EXCEPT !.dlog.done = TRUE,
                       !.loc = [InitLoc EXCEPT !.next_push = m.loc.next_push],
                       !.flog = NewFlog]

\* Cancellation with CancelledError as a subclass of Exception: the except
\* clause of _send_to_groups catches it and the loop goes on.
CancelledSwallowed(m) ==
    IF m.pc \in {"fetch_get", "fetch_backoff", "stg_send", "stg_pace"}
    THEN [Release(m) EXCEPT !.pc = "guard",
                            !.loc = [InitLoc EXCEPT !.next_push = m.loc.next_push],
                            !.flog = NewFlog]
    ELSE [Release(m) EXCEPT !.pc = "done",
                            !.loc = InitLoc,
                            !.flog = NewFlog,
                            !.dlog = [NewDlog EXCEPT !.left = m.loc.path]]

\* CancelledError unwinds every frame of the task: its locals are gone, and
\* the dispatch it was in, if any, is not completed.
Cancelled(m) ==
    [Release(m) EXCEPT !.pc = "done",
                       !.loc = InitLoc,
                       !.flog = NewFlog,
                       !.dlog = [NewDlog EXCEPT !.left = m.loc.path]]

\* _send_to_groups without its try/except: a failed fetch or a send that
\* raised reaches "except Exception" of _daily_task, which ends the cycle.
EndDispatchRaising(m) ==
    LET raised == \/ ~m.loc.ret.ok
                  \/ m.dlog.sends # <<>> /\ ~m.dlog.sends[Len(m.dlog.sends)].ok
    IN  IF m.loc.caller = "daily"
        THEN (IF raised THEN [Settle(m) EXCEPT !.pc = "cooldown"]
              ELSE RunSources(Settle(m), SourceIndex(m.loc.src) + 1))
        ELSE [Settle(m) EXCEPT !.pc = "idle", !.dlog.reply = "pushed"]

\* _send_to_groups returns to its caller: _daily_task goes on with the next
\* source, push_news yields its reply.
EndDispatch(m) ==
    IF m.loc.caller = "daily"
    THEN RunSources(Settle(m), SourceIndex(m.loc.src) + 1)
    ELSE [Settle(m) EXCEPT !.pc = "idle", !.dlog.reply = "pushed"]

\* os.remove(path) inside try/except.
RemoveFile(m) == [m EXCEPT !.loc.path = FALSE, !.dlog.removed = @ + 1]

\* _send_to_groups after its for loop over self.groups.
StgAfterLoop(m) == EndDispatch(IF m.loc.is_image THEN RemoveFile(m) ELSE m)

\* _send_to_groups after "path, ok = await fetch_func()".
StgAfterFetch(m) ==
    IF ~m.loc.ret.ok THEN EndDispatch(m)
    ELSE IF Len(groups) = 0 THEN StgAfterLoop(m)
    ELSE [m EXCEPT !.pc = "stg_send", !.loc.target = 1]

\* _handle_fetch after "path, ok = await image_func()": each branch awaits
\* one event.send.
HfAfterFetch(m) == [m EXCEPT !.pc = "hf_send"]

\* The fetcher returns ret to whoever awaits it. The caller keeps the tuple;
\* the record of the attempts goes with the fetcher's frame, unless the
\* fetcher was called on its own.
FetchReturn(m, ret) ==
    LET value == [ok |-> ret.ok, tag |-> ret.tag, s |-> ret.s]
        m1 == [m EXCEPT !.loc.ret = value,
                        !.loc.attempt = 0,
                        !.loc.path = ret.ok /\ ret.tag = "path",
                        !.dlog.created = ret.ok /\ ret.tag = "path",
                        !.dlog.fetched = IF ret.ok THEN "ok" ELSE "failed"]
    IN  IF m.loc.caller \in {"daily", "push"} THEN StgAfterFetch([m1 EXCEPT !.flog = NewFlog])
        ELSE IF m.loc.caller = "handle" THEN HfAfterFetch([m1 EXCEPT !.flog = NewFlog])
        ELSE [m1 EXCEPT !.pc = "returned", !.flog.ret = ret, !.flog.done = TRUE]

\* ---------------------------------------------------------- fetchers
\* One pass of "for attempt in range(retries)": the GET (and, for an image
\* in JSON mode, the download), then return, or log and back off.
FetchAttempt(t) ==
    /\ pc[t] = "fetch_get"
    /\ \E resp \in Responses(loc[t].use_json),
          resp2 \in IF loc[t].use_json /\ IsImageFetcher(loc[t].fetcher)
                    THEN Responses(FALSE) ELSE {Failure("error")} :
        LET out == AttemptOutcome(loc[t].fetcher, loc[t].use_json, resp, resp2)
            m0 == Elapse(t, [M(t) EXCEPT !.flog.tries = @ + 1], AttemptTime(out))
            attempt == loc[t].attempt
            failed == [m0 EXCEPT !.flog.last_err = [kind |-> out.s[1], attempt |-> attempt]]
        IN  Commit(t,
              IF out.ok
              THEN FetchReturn(m0, [ok |-> TRUE, tag |-> out.tag, s |-> out.s,
                                    attempt |-> attempt])
              ELSE IF IsLastAttempt(attempt)
              THEN FetchReturn(failed, [ok |-> FALSE, tag |-> "reason", s |-> out.s,
                                        attempt |-> attempt])
              ELSE [failed EXCEPT !.pc = "fetch_backoff"])
    /\ UNCHANGED <<push_times, format, enable, status, cycles, start, extract>>

\* The retry loop without its "await asyncio.sleep(1)".
FetchNoBackoff(t) ==
    /\ pc[t] = "fetch_backoff"
    /\ LET m0 == [M(t) EXCEPT !.loc.attempt = @ + 1]
       IN  Commit(t,
             IF m0.loc.attempt < Retries
             THEN [m0 EXCEPT !.pc = "fetch_get"]
             ELSE FetchReturn(m0, [ok |-> FALSE, tag |-> "unknown", s |-> <<>>,
                                   attempt |-> m0.loc.attempt]))
    /\ UNCHANGED <<push_times, format, enable, status, cycles, start, extract>>

\* await asyncio.sleep(1) is over: the next pass, or the loop is exhausted
\* and the fetcher returns its fallback.
FetchBackoff(t) ==
    /\ pc[t] = "fetch_backoff"
    /\ LET m0 == Elapse(t, [M(t) EXCEPT !.flog.waits = @ + 1,
                                        !.loc.attempt = @ + 1], Seconds(BackoffSeconds))
       IN  Commit(t,
             IF m0.loc.attempt < Retries
             THEN [m0 EXCEPT !.pc = "fetch_get"]
             ELSE FetchReturn(m0, [ok |-> FALSE, tag |-> "unknown", s |-> <<>>,
                                   attempt |-> m0.loc.attempt]))
    /\ UNCHANGED <<push_times, format, enable, status, cycles, start, extract>>

\* ------------------------------------------------------ _send_to_groups
\* await self.context.send_message(target, ...) is over: it returned, or it
\* raised and the except clause of _send_to_groups logged it.
StgSend(t) ==
    /\ pc[t] = "stg_send"
    /\ \E ok \in BOOLEAN :
        LET sent == [target |-> groups[loc[t].target],
                     kind |-> IF loc[t].is_image THEN "image" ELSE "text",
                     ok |-> ok]
            m0 == [M(t) EXCEPT !.dlog.sends = Append(@, sent)]
        IN  Commit(t, IF ok THEN [m0 EXCEPT !.pc = "stg_pace"] ELSE EndDispatch(m0))
    /\ UNCHANGED <<push_times, format, enable, status, cycles, start, extract>>

\* await asyncio.sleep(2) is over: the next target, or the end of the loop.
StgPace(t) ==
    /\ pc[t] = "stg_pace"
    /\ LET m0 == Elapse(t, M(t), Seconds(PaceSeconds))
       IN  Commit(t,
             IF loc[t].target < Len(groups)
             THEN [m0 EXCEPT !.pc = "stg_send", !.loc.target = @ + 1]
             ELSE StgAfterLoop(m0))
    /\ UNCHANGED <<push_times, format, enable, status, cycles, start, extract>>

\* ---------------------------------------------------------- _daily_task
\* The top of the loop with next_push computed once, before the loop.
LoopTopOnce(m) ==
    LET r == get_next_push_time(m.now, push_times)
    IN  IF m.pc # "start" THEN [m EXCEPT !.pc = "sleep_until"]
        ELSE IF r.raised
        THEN [m EXCEPT !.pc = "cooldown"]
        ELSE [m EXCEPT !.pc = "sleep_until", !.loc.next_push = r.value]

\* The top of "while True": next_push = self._get_next_push_time(), then the
\* sleep until it; a ValueError goes to "except Exception" and its 300 s sleep.
LoopTop(m) ==
    LET r == get_next_push_time(m.now, push_times)
    IN  IF r.raised
        THEN [m EXCEPT !.pc = "cooldown"]
        ELSE [m EXCEPT !.pc = "sleep_until", !.loc.next_push = r.value]

\* The event loop runs the task created in __init__ for the first time.
DailyStart ==
    /\ pc["sched"] = "start"
    /\ Commit("sched", LoopTop(M("sched")))
    /\ UNCHANGED <<push_times, format, enable, status, cycles, start, extract>>

\* The sleep until next_push is over (a sleep never ends early, and may end
\* late): the push cycle of this firing starts.
DailyWake ==
    /\ pc["sched"] = "sleep_until"
    /\ loc["sched"].next_push < Horizon
    /\ \E late \in Oversleep :
        LET woken == [M("sched") EXCEPT !.now = Max(now, loc["sched"].next_push) + late]
        IN  Commit("sched", RunSources(woken, 1))
    /\ cycles' = Append(cycles, loc["sched"].next_push)
    /\ UNCHANGED <<push_times, format, enable, status, start, extract>>

\* await asyncio.sleep(60) is over: back to the top of the loop.
DailyGuard ==
    /\ pc["sched"] = "guard"
    /\ Commit("sched", LoopTop(Elapse("sched", M("sched"), Seconds(GuardSeconds))))
    /\ UNCHANGED <<push_times, format, enable, status, cycles, start, extract>>

\* The except clause with the 60 s of the guard sleep for its 300 s.
DailyCooldownShort ==
    /\ pc["sched"] = "cooldown"
    /\ now < Horizon
    /\ Commit("sched", LoopTop(Elapse("sched", M("sched"), Seconds(GuardSeconds))))
    /\ UNCHANGED <<push_times, format, enable, status, cycles, start, extract>>

\* await asyncio.sleep(300) in the except clause is over: back to the top.
DailyCooldown ==
    /\ pc["sched"] = "cooldown"
    /\ now < Horizon
    /\ Commit("sched", LoopTop(Elapse("sched", M("sched"), Seconds(CooldownSeconds))))
    /\ UNCHANGED <<push_times, format, enable, status, cycles, start, extract>>

\* terminate(): task.cancel() unless task.done(). CancelledError is raised at
\* the await the task is suspended on; no "except Exception" catches it, and
\* _daily_task leaves its loop (or, from the cooldown sleep, the coroutine).
Terminate ==
    /\ pc["sched"] # "done"
    /\ Commit("sched", Cancelled(M("sched")))
    /\ UNCHANGED <<push_times, format, enable, status, cycles, start, extract>>

\* ------------------------------------------------- on-demand commands
\* check_status: no await; a ValueError of _get_next_push_time leaves the
\* handler without a reply.
check_status(t) ==
    LET r == get_next_push_time(t, push_times)
        total_seconds == (r.value - t) \div TicksPerSecond
    IN  IF r.raised
        THEN [called |-> TRUE, raised |-> TRUE, next_push |-> 0, hours |-> 0, minutes |-> 0]
        ELSE [called |-> TRUE, raised |-> FALSE, next_push |-> r.value,
              hours |-> total_seconds \div 3600,
              minutes |-> (total_seconds % 3600) \div 60]

\* check_status storing what it computed where _daily_task keeps next_push.
CheckStatusShared ==
    /\ pc["cmd"] = "idle"
    /\ status' = check_status(now)
    /\ loc' = [loc EXCEPT !["sched"].next_push = status'.next_push]
    /\ UNCHANGED <<now, push_times, format, enable, pc, cycles, flog, dlog,
                   leaked, start, extract>>

CheckStatus ==
    /\ pc["cmd"] = "idle"
    /\ status' = check_status(now)
    /\ UNCHANGED <<now, push_times, format, enable, pc, loc, cycles, flog, dlog,
                   leaked, start, extract>>

\* push_news: await self._send_to_groups(...), then the reply.
PushNews ==
    /\ pc["cmd"] = "idle"
    /\ Commit("cmd", send_to_groups(M("cmd"), "push", "news"))
    /\ UNCHANGED <<push_times, format, enable, status, cycles, start, extract>>

\* get_today_news, cmd_moyu_simple, cmd_gold_simple, cmd_ai_simple:
\* _handle_fetch(event, image_func, text_func, fmt) up to its first await.
handle_fetch(m, src) ==
    LET is_image == format[src] = "image"
        m1 == BeginFetch(m, FetchFunc(src, is_image), format[src])
    IN  [m1 EXCEPT !.loc.caller = "handle",
                   !.loc.src = src,
                   !.loc.is_image = is_image,
                   !.loc.target = 0,
                   !.dlog = [NewDlog EXCEPT !.src = src]]

HandleFetch ==
    /\ pc["cmd"] = "idle"
    /\ \E src \in SourceSet : Commit("cmd", handle_fetch(M("cmd"), src))
    /\ UNCHANGED <<push_times, format, enable, status, cycles, start, extract>>

\* What _handle_fetch sends after the fetch: the image, the text, or the
\* failure reason as plain text.
HfMessage(l) ==
    IF ~l.ret.ok THEN "reason" ELSE IF l.is_image THEN "image" ELSE "text"

\* The await event.send(...) of the try block is over: it returned (and an
\* image's file is removed), or it raised and the except clause sends
\* "获取失败".
HfSend ==
    /\ pc["cmd"] = "hf_send"
    /\ \E ok \in BOOLEAN :
        LET sent == [target |-> 0, kind |-> HfMessage(loc["cmd"]), ok |-> ok]
            m0 == [M("cmd") EXCEPT !.dlog.sends = Append(@, sent)]
        IN  Commit("cmd",
              IF ~ok THEN [m0 EXCEPT !.pc = "hf_except"]
              ELSE [Settle(IF sent.kind = "image" THEN RemoveFile(m0) ELSE m0)
                       EXCEPT !.pc = "idle"])
    /\ UNCHANGED <<push_times, format, enable, status, cycles, start, extract>>

\* The await event.send(...) of the except clause is over; if it raised too,
\* the exception leaves the handler.
HfExcept ==
    /\ pc["cmd"] = "hf_except"
    /\ \E ok \in BOOLEAN :
        LET sent == [target |-> 0, kind |-> "error", ok |-> ok]
            m0 == [M("cmd") EXCEPT !.dlog.sends = Append(@, sent)]
        IN  Commit("cmd", [Settle(m0) EXCEPT !.pc = "idle"])
    /\ UNCHANGED <<push_times, format, enable, status, cycles, start, extract>>

\* ------------------------------------------------------- extractors
\* self._extract_first_string(obj)
ExtractFirstString ==
    /\ extract.func = "none"
    /\ extract' = [extract EXCEPT !.func = "string",
                                  !.res = extract_first_string(extract.obj)]
    /\ UNCHANGED <<now, push_times, format, enable, pc, loc, status, cycles, flog,
                   dlog, leaked, start>>

\* self._extract_first_image_url(obj)
ExtractFirstImageUrl ==
    /\ extract.func = "none"
    /\ extract' = [extract EXCEPT !.func = "image_url",
                                  !.res = extract_first_image_url(extract.obj)]
    /\ UNCHANGED <<now, push_times, format, enable, pc, loc, status, cycles, flog,
                   dlog, leaked, start>>

\* ------------------------------------------------------ specifications
AllSources(v) == [src \in SourceSet |-> v]
Only(S) == [src \in SourceSet |-> src \in S]

\* The state __init__ leaves: the scheduler task created, no command running.
Constructed ==
    /\ start = now
    /\ pc = [t \in Tasks |-> IF t = "sched" THEN "start" ELSE "idle"]
    /\ loc = [t \in Tasks |-> InitLoc]
    /\ flog = [t \in Tasks |-> NewFlog]
    /\ dlog = [t \in Tasks |-> NewDlog]
    /\ status = NoStatus
    /\ cycles = <<>>
    /\ leaked = 0
    /\ extract = NoExtract

\* The scheduler loop, from construction to cancellation.
SchedTimes ==
    { <<HHMM(8, 0), HHMM(8, 2)>>,
      <<HHMM(23, 59)>>,
      <<HHMM(8, 1), HHMM(8, 0)>>,
      <<HHMM(8, 0), <<JunkField>>>>,
      <<<<JunkField>>>> }
SchedStarts == { At(4, 7, 59, 59, 1), At(6, 8, 0, 0, 0) }
SchedEnables ==
    { Only({"news", "moyu", "ai"}), Only({"moyu", "gold"}), Only({"gold", "ai"}),
      AllSources(FALSE) }
SchedFormats ==
    { AllSources("image"),
      [src \in SourceSet |-> IF src \in {"news", "ai"} THEN "json"
                             ELSE IF src = "moyu" THEN "text" ELSE "image"] }

Init ==
    /\ now \in SchedStarts
    /\ push_times \in SchedTimes
    /\ enable \in SchedEnables
    /\ format \in SchedFormats
    /\ Constructed

Next ==
    \/ DailyStart
    \/ DailyWake
    \/ FetchAttempt("sched")
    \/ FetchBackoff("sched")
    \/ StgSend("sched")
    \/ StgPace("sched")
    \/ DailyGuard
    \/ DailyCooldown
    \/ Terminate

Spec == Init /\ [][Next]_vars

\* _get_next_push_time as a function of now and of the configured strings,
\* applied by check_status.
TriggerPool ==
    { HHMM(8, 0), HHMM(8, 1), HHMM(18, 0), HHMM(0, 0), HHMM(23, 59),
      HHMM(24, 0), HHMM(8, 60), HHMM(-1, 30),
      <<IntField(8)>>, <<IntField(8), IntField(0), IntField(0)>>,
      <<JunkField, IntField(0)>>, <<JunkField>> }
TriggerLists == UNION { [1..n -> TriggerPool] : n \in 1..MaxTriggers }
ClockTimes ==
    { At(d, h, m, sec, sub) : d \in {4, 6}, h \in {0, 8, 23}, m \in {0, 1, 59},
                              sec \in {0, 59}, sub \in {0, TicksPerSecond - 1} }

InitClock ==
    /\ now \in ClockTimes
    /\ push_times \in TriggerLists
    /\ enable = AllSources(TRUE)
    /\ format = AllSources("image")
    /\ Constructed

NextClock == CheckStatus

SpecClock == InitClock /\ [][NextClock]_vars

\* A fetcher called on its own, with any format argument.
InitFetch ==
    /\ now = At(4, 8, 0, 0, 0)
    /\ start = now
    /\ push_times = <<HHMM(8, 0)>>
    /\ enable = AllSources(TRUE)
    /\ format = AllSources("image")
    /\ pc = [t \in Tasks |-> IF t = "sched" THEN "start" ELSE "fetch_get"]
    /\ \E fetcher \in Fetchers, fmt \in Formats :
         loc = [t \in Tasks |->
                  IF t = "sched" THEN InitLoc
                  ELSE [InitLoc EXCEPT !.caller = "direct",
                                       !.fetcher = fetcher,
                                       !.use_json = UseJson(fetcher, fmt)]]
    /\ flog = [t \in Tasks |-> NewFlog]
    /\ dlog = [t \in Tasks |-> NewDlog]
    /\ status = NoStatus
    /\ cycles = <<>>
    /\ leaked = 0
    /\ extract = NoExtract

NextFetch ==
    \/ FetchAttempt("cmd")
    \/ FetchBackoff("cmd")

SpecFetch == InitFetch /\ [][NextFetch]_vars

\* The extractors as functions of a JSON value: every value of at most
\* MaxNodes nodes whose scalars are null or one of the sample strings.
JsonLeaves ==
    { JNull, JStr(<<>>), JStr(<<"txt">>), JStr(UrlPng), JStr(UrlJpg), JStr(UrlGif),
      JStr(HttpNoScheme), JStr(FtpPng) }
\* An object's values in key order, keyed by their position.
KeyByPos(items) == [i \in 1..Len(items) |-> Keyed(ToString(i), items[i])]

RECURSIVE JsonOfSize(_), JsonSeqsOfSize(_)
\* The sequences of values with n nodes in all.
JsonSeqsOfSize(n) ==
    IF n = 0 THEN { <<>> }
    ELSE UNION { { <<v>> \o rest : v \in JsonOfSize(k), rest \in JsonSeqsOfSize(n - k) } :
                 k \in 1..n }
\* The values with exactly n nodes.
JsonOfSize(n) ==
    (IF n = 1 THEN JsonLeaves ELSE {})
        \cup { JList(items) : items \in JsonSeqsOfSize(n - 1) }
        \cup { JDict(KeyByPos(items)) : items \in JsonSeqsOfSize(n - 1) }

InitExtract ==
    /\ now = At(4, 8, 0, 0, 0)
    /\ start = now
    /\ push_times = <<HHMM(8, 0)>>
    /\ enable = AllSources(TRUE)
    /\ format = AllSources("image")
    /\ pc = [t \in Tasks |-> IF t = "sched" THEN "start" ELSE "idle"]
    /\ loc = [t \in Tasks |-> InitLoc]
    /\ flog = [t \in Tasks |-> NewFlog]
    /\ dlog = [t \in Tasks |-> NewDlog]
    /\ status = NoStatus
    /\ cycles = <<>>
    /\ leaked = 0
    /\ \E n \in 1..MaxNodes : \E obj \in JsonOfSize(n) :
         extract = [NoExtract EXCEPT !.obj = obj]

NextExtract ==
    \/ ExtractFirstString
    \/ ExtractFirstImageUrl

SpecExtract == InitExtract /\ [][NextExtract]_vars

\* The on-demand commands, one at a time, under every configuration of the
\* four formats.
InitCmd ==
    /\ now = At(4, 8, 0, 0, 0)
    /\ push_times \in { <<HHMM(8, 0), HHMM(18, 0)>>, <<<<JunkField>>>> }
    /\ enable = AllSources(TRUE)
    /\ format \in [SourceSet -> Formats]
    /\ Constructed

NextCmd ==
    \/ CheckStatus
    \/ PushNews
    \/ HandleFetch
    \/ FetchAttempt("cmd")
    \/ FetchBackoff("cmd")
    \/ StgSend("cmd")
    \/ StgPace("cmd")
    \/ HfSend
    \/ HfExcept

SpecCmd == InitCmd /\ [][NextCmd]_vars

\* The scheduler loop with on-demand commands arriving, one at a time, while
\* it is suspended.
InitBoth ==
    /\ now = At(4, 8, 0, 0, 0)
    /\ push_times \in { <<HHMM(8, 0)>>, <<<<JunkField>>>> }
    /\ enable = Only({"news"})
    /\ format = AllSources("text")
    /\ Constructed

NextBoth ==
    \/ Next
    \/ NextCmd

SpecBoth == InitBoth /\ [][NextBoth]_vars

\* Every entry point on its own, under every value of each source's format:
\* the scheduler loop with one source enabled and no command, or commands
\* with the scheduler task not yet run.
EntryFormats ==
    { [src \in SourceSet |-> IF src = s THEN f ELSE g] :
        s \in SourceSet, f \in Formats, g \in Formats }
EntryEnables == { Only({src}) : src \in SourceSet }
CmdUnused == pc["cmd"] = "idle" /\ dlog["cmd"] = NewDlog /\ ~status.called

InitEntry ==
    /\ now = At(4, 7, 59, 59, 1)
    /\ push_times \in { <<HHMM(8, 0)>>, <<<<JunkField>>>> }
    /\ enable \in EntryEnables
    /\ format \in EntryFormats
    /\ Constructed

NextEntry ==
    \/ CmdUnused /\ Next
    \/ pc["sched"] = "start" /\ NextCmd

SpecEntry == InitEntry /\ [][NextEntry]_vars

\* ------------------------------------------------------------- claims
\* The indices of the configured strings that are valid triggers.
ValidTriggers == { i \in 1..Len(push_times) : parse_time_ok(push_times[i]) }
\* Trigger i's time of day on the day of instant t, seconds zero.
TodayAt(t, i) ==
    DayOf(t) * TicksPerDay
        + (push_times[i][1].val * 60 + push_times[i][2].val) * TicksPerMinute
\* The instants of the valid triggers on today's and tomorrow's date.
TriggerInstants(t) ==
    { TodayAt(t, i) + d * TicksPerDay : i \in ValidTriggers, d \in {0, 1} }

\* C1: with every configured trigger valid, _get_next_push_time returns an
\* instant strictly after now, which is one of the triggers' times of day on
\* today's or tomorrow's date with seconds zero, and the earliest of those
\* after now; a trigger whose instant today is exactly now counts for tomorrow.
C1_NextPushTime ==
    (status.called /\ ValidTriggers = 1..Len(push_times)) =>
        /\ ~status.raised
        /\ status.next_push > now
        /\ status.next_push \in TriggerInstants(now)
        /\ SecondPart(status.next_push) = 0
        /\ \A x \in TriggerInstants(now) : x > now => status.next_push <= x
        /\ \A i \in ValidTriggers :
             TodayAt(now, i) = now => Candidate(now, push_times[i]) = now + TicksPerDay

\* now is exactly the instant of the only trigger time: the result is
\* tomorrow's.
C1_Witness ==
    /\ status.called
    /\ ValidTriggers = 1..Len(push_times)
    /\ \A i \in ValidTriggers : TodayAt(now, i) = now
    /\ status.next_push = now + TicksPerDay

\* The trigger instants strictly between two instants.
SlotsBetween(from, to) ==
    { s \in { (d * 24 * 60 + push_times[i][1].val * 60 + push_times[i][2].val)
                  * TicksPerMinute : d \in DayOf(from)..DayOf(to), i \in ValidTriggers } :
        from < s /\ s < to }
Fired == { cycles[i] : i \in 1..Len(cycles) }

\* C2: no two push cycles are started for the same firing instant; the
\* instants of the cycles started strictly increase.
C2_SlotFiredAtMostOnce ==
    \A i, j \in 1..Len(cycles) : i < j => cycles[i] < cycles[j]

\* Three cycles have been started and the loop is in a guard sleep again.
C2_Witness ==
    /\ Len(cycles) >= 3
    /\ pc["sched"] = "guard"

\* C3 (as claimed): when the loop goes to sleep until its next firing instant,
\* a push cycle has been started for every trigger instant between startup
\* and that instant.
C3_NoSlotSkipped ==
    pc["sched"] = "sleep_until" =>
        SlotsBetween(start, loc["sched"].next_push) \subseteq Fired

\* C4 (as claimed): a dispatch that fetched its payload and ran to its end
\* made one send attempt per destination.
C4_EveryDestinationTried ==
    (dlog["sched"].done /\ dlog["sched"].fetched = "ok") =>
        /\ Len(dlog["sched"].sends) = Len(groups)
        /\ \A i \in 1..Len(groups) : dlog["sched"].sends[i].target = groups[i]

\* C5 (as claimed): no temporary file is left on disk by a cycle that is
\* over, and a cycle that created one and ran to its end removed it once.
C5_TempFileDeleted ==
    /\ leaked = 0
    /\ \A t \in Tasks : (dlog[t].done /\ dlog[t].created) => dlog[t].removed = 1

\* C6 (as claimed): a scheduled dispatch whose fetch failed sent a text
\* message to every destination.
C6_FailureReported ==
    (dlog["sched"].done /\ dlog["sched"].fetched = "failed") =>
        /\ Len(dlog["sched"].sends) = Len(groups)
        /\ \A i \in 1..Len(groups) :
             /\ dlog["sched"].sends[i].target = groups[i]
             /\ dlog["sched"].sends[i].kind = "text"

\* C7: a fetcher that returns a success returns the payload of its last
\* attempt, attempt k, after k attempts and k - 1 backoff waits, k <= 3, and
\* is then over: it makes no further attempt.
C7_SuccessAfterKAttempts ==
    /\ flog["cmd"].tries <= Retries
    /\ (flog["cmd"].done /\ flog["cmd"].ret.ok) =>
        /\ flog["cmd"].tries = flog["cmd"].ret.attempt + 1
        /\ flog["cmd"].waits = flog["cmd"].tries - 1
        /\ pc["cmd"] = "returned"
        /\ loc["cmd"].ret.ok
        /\ loc["cmd"].ret.s = flog["cmd"].ret.s

\* Two attempts failed and the third one succeeded.
C7_Witness ==
    /\ flog["cmd"].done
    /\ flog["cmd"].ret.ok
    /\ flog["cmd"].tries = 3
    /\ flog["cmd"].waits = 2
    /\ flog["cmd"].last_err.attempt = 1

\* C8: a fetcher that returns a failure made exactly Retries attempts, and
\* its reason is the error of the last of them, never the fallback.
C8_FailedAfterRetries ==
    /\ flog["cmd"].tries <= Retries
    /\ (flog["cmd"].done /\ ~flog["cmd"].ret.ok) =>
        /\ flog["cmd"].tries = Retries
        /\ flog["cmd"].ret.tag = "reason"
        /\ flog["cmd"].ret.attempt = Retries - 1
        /\ flog["cmd"].last_err.attempt = Retries - 1
        /\ flog["cmd"].ret.s = <<flog["cmd"].last_err.kind>>

\* Every attempt failed, the last one by a timeout.
C8_Witness ==
    /\ flog["cmd"].done
    /\ ~flog["cmd"].ret.ok
    /\ flog["cmd"].tries = Retries
    /\ flog["cmd"].ret.s = <<"timeout">>

\* C9 (as claimed): with no valid trigger configured the scheduler task does
\* not keep running: it never gets past its first computation.
C9_ConfigErrorFatal ==
    ValidTriggers = {} => pc["sched"] \in {"start", "done"}

\* C10: _get_next_push_time raises exactly when no configured string is a
\* valid trigger; otherwise it returns the earliest instant after now among
\* the valid triggers alone.
C10_InvalidDropped ==
    status.called =>
        IF ValidTriggers = {}
        THEN status.raised
        ELSE /\ ~status.raised
             /\ status.next_push = SetMin({ x \in TriggerInstants(now) : x > now })

\* One string is invalid, one is valid, and an instant is returned.
C10_Witness ==
    /\ status.called
    /\ ValidTriggers # {}
    /\ ValidTriggers # 1..Len(push_times)
    /\ ~status.raised
    /\ status.next_push > now

\* The scheduler task is inside a _send_to_groups call.
InDispatch == pc["sched"] \in {"fetch_get", "fetch_backoff", "stg_send", "stg_pace"}
\* The firing instant of the push cycle last started.
Firing == cycles[Len(cycles)]
Weekend(t) == Weekday(t) \in {5, 6}
\* The last source of the fixed order that is enabled and is not "ai".
LastOther == Sources[CHOOSE k \in 1..3 : enable[Sources[k]] /\ \A j \in (k + 1)..3 : ~enable[Sources[j]]]

\* C11 (as claimed): in the push cycle of a firing on a Saturday or a Sunday
\* no dispatch of the "ai" source is made, and the cycle ends with the
\* dispatch of the last other enabled source; in the cycle of a firing on
\* another weekday with "ai" enabled the cycle ends with the dispatch of "ai".
C11_WeekendAiSuppressed ==
    Len(cycles) > 0 =>
        /\ (InDispatch /\ dlog["sched"].src = "ai") => ~Weekend(Firing)
        /\ (pc["sched"] = "guard" /\ enable["ai"] /\ ~Weekend(Firing)) =>
             (dlog["sched"].src = "ai" /\ dlog["sched"].done)
        /\ (pc["sched"] = "guard" /\ Weekend(Firing)
                /\ \E src \in SourceSet \ {"ai"} : enable[src]) =>
             (dlog["sched"].src = LastOther /\ dlog["sched"].done)

\* C12: at every await the scheduler task can be suspended on, a cancellation
\* unwinds the task to its end at once; a step ends the task exactly when it
\* is a cancellation; and a task that has ended starts no fetch, no send and
\* no cycle.
C12_CancelExits ==
    [][ /\ pc["sched"] # "done" => Cancelled(M("sched")).pc = "done"
        /\ Terminate <=> (pc["sched"] # "done" /\ pc'["sched"] = "done")
        /\ pc["sched"] = "done" =>
              UNCHANGED <<pc["sched"], loc["sched"], flog["sched"], dlog["sched"], cycles>>
      ]_vars

\* The task was cancelled inside a dispatch, after a successful image fetch:
\* during a send or a pacing sleep.
C12_Witness ==
    /\ pc["sched"] = "done"
    /\ Len(cycles) >= 1
    /\ dlog["sched"].left

\* C13 (as claimed): a fetcher that returns a success returns a non-empty
\* payload: non-empty text, or a file with non-empty content.
C13_NoEmptySuccess ==
    (flog["cmd"].done /\ flog["cmd"].ret.ok) => flog["cmd"].ret.s # <<>>

\* C14 (as claimed): an on-demand command whose fetch failed sent the failure
\* reason to the requester and did not reply that the push was done.
C14_FailureReplied ==
    (dlog["cmd"].done /\ dlog["cmd"].fetched = "failed") =>
        /\ dlog["cmd"].reply # "pushed"
        /\ \E i \in 1..Len(dlog["cmd"].sends) : dlog["cmd"].sends[i].kind = "reason"

\* The strings of a JSON value in the order of a depth-first walk.
RECURSIVE StringsOf(_), StringsOfAll(_)
StringsOfAll(items) ==
    IF items = <<>> THEN <<>> ELSE StringsOf(Head(items)) \o StringsOfAll(Tail(items))
StringsOf(obj) ==
    IF obj.t = "str" THEN <<obj.s>>
    ELSE IF obj.t \in {"list", "dict"} THEN StringsOfAll(obj.items)
    ELSE <<>>
\* The first member of a sequence of strings that satisfies P, if any.
FirstWhere(strs, P(_)) ==
    LET hits == { i \in 1..Len(strs) : P(strs[i]) }
    IN  IF hits = {} THEN [found |-> FALSE, s |-> <<>>]
        ELSE [found |-> TRUE, s |-> strs[SetMin(hits)]]
\* What an extractor returned, in the same form.
Returned == [found |-> extract.res.t = "str", s |-> extract.res.s]
AnyString(str) == TRUE

\* C15 (as claimed): _extract_first_string returns the first string of the
\* depth-first walk, whatever its content, and None exactly when the value
\* holds no string.
C15_FirstString ==
    extract.func = "string" => Returned = FirstWhere(StringsOf(extract.obj), AnyString)

\* A string that starts with the http:// or https:// scheme and contains
\* one of the three extensions.
IsHttpImageUrl(str) ==
    /\ Len(str) >= 2
    /\ str[1] = "http"
    /\ str[2] \in {"://", "s://"}
    /\ \E i \in 1..Len(str) : str[i] \in {".jpg", ".jpeg", ".png"}

\* C16 (as claimed): _extract_first_image_url returns the first string of the
\* depth-first walk that starts with http:// or https:// and contains .jpg,
\* .jpeg or .png, and None when there is no such string.
C16_FirstImageUrl ==
    extract.func = "image_url" =>
        Returned = FirstWhere(StringsOf(extract.obj), IsHttpImageUrl)

\* C17: in a push cycle the scheduler task is in one dispatch at a time; a
\* dispatch starts, with its fetch, when the cycle starts or when the dispatch
\* before it is over (its fetch failed for good, a send raised, or the pacing
\* sleep after the last destination ended), whatever its outcome; it is the
\* dispatch of the next enabled source of the fixed order, the "ai" source
\* being passed over on a Saturday or Sunday; after the last one comes the
\* guard sleep.
C17_SequentialInOrder ==
    [][ LET from == IF InDispatch THEN SourceIndex(loc["sched"].src) ELSE 0
            moved == /\ pc'["sched"] # "done"
                     /\ \/ pc["sched"] = "sleep_until"
                        \/ InDispatch /\ \/ pc'["sched"] = "guard"
                                         \/ loc'["sched"].src # loc["sched"].src
            to == IF pc'["sched"] = "guard" THEN Len(Sources) + 1
                  ELSE SourceIndex(loc'["sched"].src)
        IN  /\ InDispatch =>
                pc'["sched"] \in {"fetch_get", "fetch_backoff", "stg_send", "stg_pace",
                                  "guard", "done"}
            /\ moved =>
                /\ pc'["sched"] \in {"fetch_get", "guard"}
                /\ pc["sched"] = "fetch_get" =>
                     (IsLastAttempt(loc["sched"].attempt) \/ Len(groups) = 0)
                /\ pc["sched"] = "stg_pace" => loc["sched"].target = Len(groups)
                /\ pc["sched"] # "fetch_backoff"
                /\ to > from
                /\ to <= Len(Sources) =>
                     /\ enable[Sources[to]]
                     /\ dlog'["sched"] = [NewDlog EXCEPT !.src = Sources[to]]
                     /\ flog'["sched"] = NewFlog
                /\ \A k \in (from + 1)..(to - 1) :
                     \/ ~enable[Sources[k]]
                     \/ Sources[k] = "ai" /\ Weekend(now')
      ]_vars

\* In the first cycle the three attempts of the news fetch timed out, and the
\* dispatch of the next enabled source is at its first GET.
C17_Witness ==
    /\ Len(cycles) = 1
    /\ pc["sched"] = "fetch_get"
    /\ enable["news"]
    /\ dlog["sched"].src = "moyu"
    /\ flog["sched"].tries = 0
    /\ now >= cycles[1] + Seconds(3 * TimeoutSeconds)

\* C18: when _get_next_push_time raises at the top of the loop the task goes
\* to the cooldown sleep and nowhere else; it leaves that sleep, unless it is
\* cancelled, 300 s later to compute the next firing instant again; no push
\* cycle is started meanwhile; and nothing else leads to the cooldown sleep.
C18_ErrorCooledDown ==
    [][ /\ (pc["sched"] \in {"start", "guard", "cooldown"} /\ pc'["sched"] # "done") =>
               /\ cycles' = cycles
               /\ IF ValidTriggers = {}
                  THEN pc'["sched"] = "cooldown"
                  ELSE /\ pc'["sched"] = "sleep_until"
                       /\ loc'["sched"].next_push > now'
        /\ (pc["sched"] = "cooldown" /\ pc'["sched"] # "done") =>
               now' = now + Seconds(CooldownSeconds)
        /\ pc'["sched"] = "cooldown" => pc["sched"] \in {"start", "guard", "cooldown"}
      ]_vars

\* Two cooldown sleeps are over and the loop, having failed to compute the
\* next firing instant again, is in a third.
C18_Witness ==
    /\ pc["sched"] = "cooldown"
    /\ now >= start + 2 * Seconds(CooldownSeconds)

\* C19 (as claimed): a fetcher in JSON mode does not return as a success the
\* rendering of a response in which it found no match; an attempt that found
\* no match is followed by the backoff and a later attempt, or, when it was
\* the last one, by the failure with that reason.
C19_NoMatchRetried ==
    /\ (flog["cmd"].done /\ flog["cmd"].ret.ok /\ loc["cmd"].use_json) =>
           flog["cmd"].ret.s # StrOf(JNull)
    /\ flog["cmd"].last_err.kind = "nomatch" =>
           IF ~flog["cmd"].done THEN pc["cmd"] \in {"fetch_backoff", "fetch_get"}
           ELSE IF flog["cmd"].ret.ok THEN flog["cmd"].ret.attempt > flog["cmd"].last_err.attempt
           ELSE flog["cmd"].last_err.attempt = Retries - 1

\* What the scheduler loop reads and writes, and what a command does.
SchedView ==
    <<now, push_times, format, enable, start, cycles,
      pc["sched"], loc["sched"], flog["sched"], dlog["sched"]>>
CmdView == <<pc["cmd"], loc["cmd"], flog["cmd"], dlog["cmd"], status>>

\* C20: with commands running between the steps of the scheduler loop, every
\* step is either a step of a command, which leaves the trigger set, the
\* clock, the firing instant slept towards and everything else of the loop as
\* they were, or a step the loop takes when it runs alone: the firings of the
\* loop are those of a run without commands.
C20_CommandsApart ==
    [][ \/ UNCHANGED SchedView
        \/ UNCHANGED CmdView /\ Next ]_vars

\* A push command is in its pacing sleep and a status query has been answered
\* while the scheduler loop awaits a send of its first cycle.
C20_Witness ==
    /\ Len(cycles) = 1
    /\ pc["sched"] = "stg_send"
    /\ pc["cmd"] = "stg_pace"
    /\ loc["cmd"].caller = "push"
    /\ status.called

\* C21: whatever the configured formats, a fetcher entered from a scheduled
\* firing, from the push command or from an on-demand command is the image
\* fetcher exactly when its source's format is "image", and it never asks
\* for JSON: the branch that parses JSON and calls an extractor is not run.
C21_JsonBranchDead ==
    \A t \in Tasks :
        (pc[t] \in {"fetch_get", "fetch_backoff"} /\ loc[t].caller # "direct") =>
            /\ loc[t].caller \in {"daily", "push", "handle"}
            /\ ~loc[t].use_json
            /\ IsImageFetcher(loc[t].fetcher) <=> (format[loc[t].src] = "image")
            /\ loc[t].fetcher \in {"news_text", "news_image"} <=> (loc[t].src = "news")

\* In a scheduled firing the text fetcher of a source whose format is
\* neither "image" nor "text" is at its GET.
C21_Witness ==
    /\ Len(cycles) >= 1
    /\ pc["sched"] = "fetch_get"
    /\ loc["sched"].caller = "daily"
    /\ format[loc["sched"].src] = "json"
    /\ loc["sched"].fetcher = "generic_text"

====
